---- MODULE Spec2Model ----
(***************************************************************************)
(* Model of the dengue charts: the calendar heatmap                        *)
(* (dengue_calendario.py), the state choropleth (dengue_estatal.py) and    *)
(* the municipal choropleth (dengue_municipal.py).                         *)
(*                                                                         *)
(* Floats are modelled as exact rationals [n, d] with d > 0; the float NaN *)
(* is the rational with d = 0.  Strings produced by f-strings are          *)
(* sequences of one-character strings.                                     *)
(***************************************************************************)
EXTENDS Integers, Sequences, FiniteSets, TLC

VARIABLES anio, csv, serie, prog, res, data, previos

vars == <<anio, csv, serie, prog, res, data, previos>>

(***************************************************************************)
(* Bounds of the model.                                                    *)
(***************************************************************************)
PrimerAnio == 2000
UltimoAnio == 2027
MaxFilas == 2
MaxValor == 100
MaxDias == 400

Anios == PrimerAnio..UltimoAnio

(***************************************************************************)
(* Rationals standing for float64 values.                                  *)
(***************************************************************************)
Abs(a) == IF a < 0 THEN -a ELSE a

RECURSIVE GCD(_, _)
GCD(a, b) == IF b = 0 THEN a ELSE GCD(b, a % b)

NaN == [n |-> 0, d |-> 0]

IsNaN(x) == x.d = 0

Rat(a, b) ==
    IF b = 0 THEN NaN
    ELSE LET g == GCD(Abs(a), Abs(b))
             s == IF b < 0 THEN -1 ELSE 1
         IN  [n |-> s * (a \div g), d |-> s * (b \div g)]

Int2Rat(a) == [n |-> a, d |-> 1]

RatAdd(x, y) == IF IsNaN(x) \/ IsNaN(y) THEN NaN
                ELSE Rat(x.n * y.d + y.n * x.d, x.d * y.d)

RatSub(x, y) == IF IsNaN(x) \/ IsNaN(y) THEN NaN
                ELSE Rat(x.n * y.d - y.n * x.d, x.d * y.d)

RatMul(x, y) == IF IsNaN(x) \/ IsNaN(y) THEN NaN
                ELSE Rat(x.n * y.n, x.d * y.d)

RatDivInt(x, k) == IF IsNaN(x) THEN NaN ELSE Rat(x.n, x.d * k)

\* Float comparisons: every comparison with NaN is false.
RatLt(x, y) == ~IsNaN(x) /\ ~IsNaN(y) /\ x.n * y.d < y.n * x.d
RatLe(x, y) == ~IsNaN(x) /\ ~IsNaN(y) /\ x.n * y.d <= y.n * x.d
RatEq(x, y) == ~IsNaN(x) /\ ~IsNaN(y) /\ x.n * y.d = y.n * x.d

(***************************************************************************)
(* Calendar dates (proleptic Gregorian), as pandas Timestamps have them.   *)
(***************************************************************************)
Fecha(y, m, d) == [year |-> y, month |-> m, day |-> d]

IsLeap(y) == (y % 4 = 0) /\ ((y % 100 # 0) \/ (y % 400 = 0))

DAYS_IN_MONTH == <<31, 28, 31, 30, 31, 30, 31, 31, 30, 31, 30, 31>>

DAYS_BEFORE_MONTH == <<0, 31, 59, 90, 120, 151, 181, 212, 243, 273, 304, 334>>

DaysInMonth(y, m) ==
    IF m = 2 /\ IsLeap(y) THEN 29 ELSE DAYS_IN_MONTH[m]

DaysBeforeYear(y) ==
    (y - 1) * 365 + ((y - 1) \div 4) - ((y - 1) \div 100) + ((y - 1) \div 400)

DaysBeforeMonth(y, m) ==
    DAYS_BEFORE_MONTH[m] + (IF m > 2 /\ IsLeap(y) THEN 1 ELSE 0)

\* The day number of a date, 1 for 0001-01-01.
Ordinal(f) == DaysBeforeYear(f.year) + DaysBeforeMonth(f.year, f.month) + f.day

\* The date of a day number: the 400-, 100-, 4- and 1-year cycles give the
\* year, an estimate corrected by at most one gives the month.
FromOrdinal(o) ==
    LET n0 == o - 1
        n400 == n0 \div 146097
        r400 == n0 % 146097
        n100 == r400 \div 36524
        r100 == r400 % 36524
        n4 == r100 \div 1461
        r4 == r100 % 1461
        n1 == r4 \div 365
        n == r4 % 365
        year == n400 * 400 + 1 + n100 * 100 + n4 * 4 + n1
        est == (n + 50) \div 32
        month == IF DaysBeforeMonth(year, est) > n THEN est - 1 ELSE est
    IN  IF n1 = 4 \/ n100 = 4 THEN Fecha(year - 1, 12, 31)
        ELSE Fecha(year, month, n - DaysBeforeMonth(year, month) + 1)

\* DayOfWeek with Sunday = 0.
DayOfWeek_domingo(f) == Ordinal(f) % 7

\* DayOfWeek as the ISO weekday, Monday = 1 ... Sunday = 7.
DayOfWeek_iso(f) == ((Ordinal(f) + 6) % 7) + 1

\* DayOfWeek with Saturday and Sunday on the row of Friday.
DayOfWeek_laboral(f) ==
    IF (Ordinal(f) + 6) % 7 > 4 THEN 4 ELSE (Ordinal(f) + 6) % 7

\* Timestamp.dayofweek: Monday = 0 ... Sunday = 6.
DayOfWeek(f) == (Ordinal(f) + 6) % 7

\* DateRange without its last day.
DateRange_corto(start, end) ==
    [i \in 1..(Ordinal(end) - Ordinal(start)) |->
        FromOrdinal(Ordinal(start) + i - 1)]

\* pd.date_range(start, end): one entry per day, both ends included.
DateRange(start, end) ==
    [i \in 1..(Ordinal(end) - Ordinal(start) + 1) |->
        FromOrdinal(Ordinal(start) + i - 1)]

(***************************************************************************)
(* Small helpers on sequences.                                             *)
(***************************************************************************)
Range(s) == {s[i] : i \in DOMAIN s}

(***************************************************************************)
(* f-string number formatting.                                             *)
(***************************************************************************)
\* The character U+2265 (greater-than or equal to) of the last tick label.
MAYOR_IGUAL == ">="

DIGITOS == <<"0", "1", "2", "3", "4", "5", "6", "7", "8", "9">>

RECURSIVE Decimal(_)
Decimal(k) == IF k < 10 THEN <<DIGITOS[k + 1]>>
              ELSE Decimal(k \div 10) \o <<DIGITOS[(k % 10) + 1]>>

Pad3(k) == <<DIGITOS[(k \div 100) + 1], DIGITOS[((k \div 10) % 10) + 1],
             DIGITOS[(k % 10) + 1]>>

\* The ',' option: groups of three digits separated by commas.
RECURSIVE Miles(_)
Miles(k) == IF k < 1000 THEN Decimal(k)
            ELSE Miles(k \div 1000) \o <<",">> \o Pad3(k % 1000)

\* Rounding of a non-negative value to an integer, ties to even.
RoundHalfEven(x) ==
    LET q == x.n \div x.d
        r == x.n % x.d
    IN  IF 2 * r < x.d THEN q
        ELSE IF 2 * r > x.d THEN q + 1
        ELSE IF q % 2 = 0 THEN q ELSE q + 1

\* f"{x:,.0f}"
Format0(x) == IF IsNaN(x) THEN <<"n", "a", "n">> ELSE Miles(RoundHalfEven(x))

\* f"{x:,.1f}"
Format1(x) ==
    IF IsNaN(x) THEN <<"n", "a", "n">>
    ELSE LET t == RoundHalfEven(RatMul(x, Int2Rat(10)))
         IN  Miles(t \div 10) \o <<".">> \o <<DIGITOS[(t % 10) + 1]>>

(***************************************************************************)
(* The scale: Series.min(), Series.quantile(0.95), np.linspace.            *)
(***************************************************************************)
\* The values pandas reductions see: NaN entries are skipped.
DropNa(s) == SelectSeq(s, LAMBDA x : ~IsNaN(x))

\* The reductions run over the positions lo..hi of the values, by halves.
RECURSIVE Reduce_min(_, _, _)
Reduce_min(s, lo, hi) ==
    IF lo = hi THEN s[lo]
    ELSE LET mid == (lo + hi) \div 2
             a == Reduce_min(s, lo, mid)
             b == Reduce_min(s, mid + 1, hi)
         IN  IF RatLt(b, a) THEN b ELSE a

\* Series.min(): the smallest non-NaN value, NaN when there is none.
SeriesMin(s) ==
    LET v == DropNa(s)
    IN  IF v = <<>> THEN NaN ELSE Reduce_min(v, 1, Len(v))

RECURSIVE Reduce_max(_, _, _)
Reduce_max(s, lo, hi) ==
    IF lo = hi THEN s[lo]
    ELSE LET mid == (lo + hi) \div 2
             a == Reduce_max(s, lo, mid)
             b == Reduce_max(s, mid + 1, hi)
         IN  IF RatLt(a, b) THEN b ELSE a

\* Series.max(): the largest non-NaN value, NaN when there is none.
SeriesMax(s) ==
    LET v == DropNa(s)
    IN  IF v = <<>> THEN NaN ELSE Reduce_max(v, 1, Len(v))

\* Numerator and denominator of the quantile 0.95.
Q_NUM == 19
Q_DEN == 20

\* SeriesQuantile as the true maximum.
SeriesQuantile_max(s) ==
    LET v == SelectSeq(s, LAMBDA x : x.d # 0)
    IN  IF v = <<>> THEN NaN
        ELSE CHOOSE x \in {v[i] : i \in DOMAIN v} :
                 \A i \in DOMAIN v : RatLe(v[i], x)

\* Series.quantile(0.95): numpy's 'linear' method on the sorted non-NaN
\* values: virtual index q * (n - 1), its floor and the next index, and a
\* linear interpolation between the two order statistics.
SeriesQuantile(s) ==
    LET arr == SortSeq(DropNa(s), LAMBDA a, b : RatLt(a, b))
        n == Len(arr)
        previous == (Q_NUM * (n - 1)) \div Q_DEN
        next == IF previous + 1 > n - 1 THEN n - 1 ELSE previous + 1
        gamma == Rat((Q_NUM * (n - 1)) % Q_DEN, Q_DEN)
        a == arr[previous + 1]
        b == arr[next + 1]
    IN  IF n = 0 THEN NaN
        ELSE RatAdd(a, RatMul(RatSub(b, a), gamma))

\* Linspace without the end point: one value too few.
Linspace_sinFinal(start, stop, num) ==
    [k \in 1..(num - 1) |->
        RatAdd(start, RatMul(Int2Rat(k - 1),
                             RatDivInt(RatSub(stop, start), num - 1)))]

\* Linspace with the step (stop - start) / num.
Linspace_paso(start, stop, num) ==
    [k \in 1..num |->
        IF k = num THEN stop
        ELSE RatAdd(start, RatMul(Int2Rat(k - 1),
                                  RatDivInt(RatSub(stop, start), num)))]

\* Linspace that scales by 1 / (stop - start): no number when stop = start.
Linspace_degenerado(start, stop, num) ==
    [k \in 1..num |->
        IF RatEq(start, stop) THEN NaN
        ELSE IF k = num THEN stop
        ELSE RatAdd(start, RatMul(Int2Rat(k - 1),
                                  RatDivInt(RatSub(stop, start), num - 1)))]

\* Linspace that stops one step short: num values with step
\* (stop - start) / num.
Linspace_comprimido(start, stop, num) ==
    [k \in 1..num |->
        RatAdd(start, RatMul(Int2Rat(k - 1),
                             RatDivInt(RatSub(stop, start), num)))]

\* np.linspace(start, stop, num): start + k * step, the last one set to stop.
Linspace(start, stop, num) ==
    LET div == num - 1
        step == RatDivInt(RatSub(stop, start), div)
    IN  [k \in 1..num |->
            IF k = num THEN stop
            ELSE RatAdd(start, RatMul(Int2Rat(k - 1), step))]

(***************************************************************************)
(* The input table ./data/{anio}.csv: one row per case record.             *)
(***************************************************************************)
Fila(f, e, ent, mun) ==
    [FECHA_SIGN_SINTOMAS |-> f, ESTATUS_CASO |-> e,
     ENTIDAD_RES |-> ent, MUNICIPIO_RES |-> mun]

\* The rows a table of year y is drawn from: confirmed (2) and probable (1)
\* cases, on adjacent and distant days, one with onset in the previous year.
Filas(y) == <<
    Fila(Fecha(y, 1, 1), 2, 1, 1),
    Fila(Fecha(y, 1, 2), 2, 2, 1),
    Fila(Fecha(y, 1, 3), 2, 1, 2),
    Fila(Fecha(y, 3, 1), 2, 3, 1),
    Fila(Fecha(y, 12, 31), 2, 33, 1),
    Fila(Fecha(y - 1, 12, 30), 2, 2, 2),
    Fila(Fecha(y, 1, 2), 1, 1, 1) >>

\* Tables of at most MaxFilas rows (row indices in non-decreasing order).
Tablas(y) ==
    LET Idx == UNION {[1..k -> DOMAIN Filas(y)] : k \in 0..MaxFilas}
        Ord == {t \in Idx : \A i \in 1..(Len(t) - 1) : t[i] <= t[i + 1]}
    IN  {[i \in DOMAIN t |-> Filas(y)[t[i]]] : t \in Ord}

(***************************************************************************)
(* dengue_calendario.main(anio)                                            *)
(***************************************************************************)
\* Extender with each week number eight times.
RECURSIVE Extender_ocho(_)
Extender_ocho(semana) ==
    IF semana = 54 THEN <<>>
    ELSE [j \in 1..8 |-> semana] \o Extender_ocho(semana + 1)

\* Extender with 53 week numbers only.
RECURSIVE Extender_53(_)
Extender_53(semana) ==
    IF semana = 53 THEN <<>>
    ELSE [j \in 1..7 |-> semana] \o Extender_53(semana + 1)

\* numero_semana: each of the 54 week numbers, seven times.
RECURSIVE Extender(_)
Extender(semana) ==
    IF semana = 54 THEN <<>>
    ELSE [j \in 1..7 |-> semana] \o Extender(semana + 1)

numero_semana == Extender(0)

\* Slice that ignores where the year begins: lista[0:hi - lo].
Slice_sinPad(lista, lo, hi) == SubSeq(lista, 1, hi - lo)

\* Slice that begins one place late: lista[lo + 1:hi + 1].
Slice_desplazado(lista, lo, hi) ==
    SubSeq(lista, lo + 2, IF hi + 1 > Len(lista) THEN Len(lista) ELSE hi + 1)

\* Slice that goes on from the start of the list when it reaches its end.
Slice_ciclico(lista, lo, hi) ==
    [i \in 1..(hi - lo) |-> lista[((lo + i - 1) % Len(lista)) + 1]]

\* Python's numero_semana[lo:hi]: the slice stops at the end of the list.
Slice(lista, lo, hi) ==
    SubSeq(lista, lo + 1, IF hi > Len(lista) THEN Len(lista) ELSE hi)

\* df[df["ESTATUS_CASO"] == 2]
Confirmados(tabla) == SelectSeq(tabla, LAMBDA r : r.ESTATUS_CASO = 2)

\* Resample with bins for the days that have rows only.
Resample_sinRelleno(df) ==
    LET ords == {Ordinal(df[i].FECHA_SIGN_SINTOMAS) : i \in DOMAIN df}
    IN  IF df = <<>> THEN <<>>
        ELSE [o \in ords |->
                Cardinality({i \in DOMAIN df :
                                Ordinal(df[i].FECHA_SIGN_SINTOMAS) = o})]

\* df.resample("D").count(): one bin per day from the first to the last
\* onset date, holding the number of rows of that day (0 for a day between
\* them that has none).
Resample(df) ==
    LET ords == {Ordinal(df[i].FECHA_SIGN_SINTOMAS) : i \in DOMAIN df}
        lo == CHOOSE o \in ords : \A p \in ords : o <= p
        hi == CHOOSE o \in ords : \A p \in ords : p <= o
    IN  IF df = <<>> THEN <<>>
        ELSE [o \in lo..hi |->
                Cardinality({i \in DOMAIN df :
                                Ordinal(df[i].FECHA_SIGN_SINTOMAS) = o})]

\* df.index.month.value_counts()[:1]: the month with most rows and its count
\* (the first such month in row order).
MesMax(df) ==
    LET cuenta(m) == Cardinality({i \in DOMAIN df :
                                     df[i].FECHA_SIGN_SINTOMAS.month = m})
        primero(m) == CHOOSE i \in DOMAIN df :
                         /\ df[i].FECHA_SIGN_SINTOMAS.month = m
                         /\ \A j \in 1..(i - 1) :
                               df[j].FECHA_SIGN_SINTOMAS.month # m
        meses == {df[i].FECHA_SIGN_SINTOMAS.month : i \in DOMAIN df}
        mejor == CHOOSE m \in meses :
                    \A k \in meses \ {m} :
                        \/ cuenta(k) < cuenta(m)
                        \/ cuenta(k) = cuenta(m) /\ primero(m) < primero(k)
    IN  [mes |-> mejor, cuenta |-> cuenta(mejor)]

\* Borde with days counted from 0.
Borde_cero(x) == IF x.day = 0 THEN 1 ELSE 0

\* lambda x: 1 if x.day == 1 else 0
Borde(x) == IF x.day = 1 THEN 1 ELSE 0

\* final: the frame of all the days of the year with the column 'total'
\* aligned on the dates of totales_por_dia (NaN where it has no bin), and
\* the columns 'dayofweek', 'semana' and 'borde'.
Final(a, df) ==
    LET indice == DateRange(Fecha(a, 1, 1), Fecha(a, 12, 31))
        totales_por_dia == Resample(df)
        pad == DayOfWeek(indice[1])
        semana == Slice(numero_semana, pad, Len(indice) + pad)
    IN  [i \in DOMAIN indice |->
            [fecha |-> indice[i],
             total |-> IF Ordinal(indice[i]) \in DOMAIN totales_por_dia
                       THEN Int2Rat(totales_por_dia[Ordinal(indice[i])])
                       ELSE NaN,
             dayofweek |-> DayOfWeek(indice[i]),
             semana |-> IF i \in DOMAIN semana THEN semana[i] ELSE -1,
             borde |-> Borde(indice[i])]]

Columna_total(final) == [i \in DOMAIN final |-> final[i].total]

\* IdxMax as the position of the last largest value.
IdxMax_ultimo(col) ==
    LET m == SeriesMax(col)
    IN  CHOOSE i \in DOMAIN col :
            /\ RatEq(col[i], m)
            /\ \A j \in (i + 1)..Len(col) : ~RatEq(col[j], m)

\* Series.idxmax(): the position of the first largest non-NaN value.
IdxMax(col) ==
    LET m == SeriesMax(col)
    IN  CHOOSE i \in DOMAIN col :
            /\ RatEq(col[i], m)
            /\ \A j \in 1..(i - 1) : ~RatEq(col[j], m)

\* Series.sum(): NaN entries are skipped.
RECURSIVE Reduce_sum(_, _, _)
Reduce_sum(s, lo, hi) ==
    IF lo > hi THEN Int2Rat(0)
    ELSE IF lo = hi THEN s[lo]
    ELSE LET mid == (lo + hi) \div 2
         IN  RatAdd(Reduce_sum(s, lo, mid), Reduce_sum(s, mid + 1, hi))

\* SeriesSum that does not skip NaN: NaN when a day has no value.
SeriesSum_conNaN(s) ==
    IF \E i \in DOMAIN s : IsNaN(s[i]) THEN NaN
    ELSE Reduce_sum(s, 1, Len(s))

SeriesSum(s) == LET v == DropNa(s) IN Reduce_sum(v, 1, Len(v))

\* Etiquetas0 with the list of labels kept between calls: the labels of a
\* run are appended to those of the first run.
Etiquetas0_global(marcas) ==
    LET antes == IF previos["calendario"].hecho
                    /\ previos["calendario"].res.error = ""
                 THEN previos["calendario"].res.etiquetas ELSE <<>>
    IN  antes \o [k \in DOMAIN marcas |->
                    IF k = Len(marcas) THEN <<MAYOR_IGUAL>> \o Format0(marcas[k])
                    ELSE Format0(marcas[k])]

\* The labels of the ticks, the last one with the 'greater or equal' sign.
Etiquetas0(marcas) ==
    [k \in DOMAIN marcas |->
        IF k = Len(marcas) THEN <<MAYOR_IGUAL>> \o Format0(marcas[k])
        ELSE Format0(marcas[k])]

TICKS_CALENDARIO == 9

\* np.linspace(1.5, 49.5, 12): the x positions of the labels of the months.
marcas_meses == Linspace(Rat(3, 2), Rat(99, 2), 12)

\* The statements of main, in order; each \E binds the value a statement
\* assigns.
main_calendario ==
    /\ prog = "ninguno"
    /\ \E df \in {Confirmados(csv)} :
       \E final \in {Final(anio, df)} :
       \E total \in {Columna_total(final)} :
       \E valor_min \in {SeriesMin(total)} :
       \E valor_max \in {SeriesQuantile(total)} :
       \E marcas \in {Linspace(valor_min, valor_max, TICKS_CALENDARIO)} :
       \E pad \in {DayOfWeek(final[1].fecha)} :
       \E suma \in {SeriesSum(total)} :
        /\ prog' = "calendario"
        /\ res' =
             IF Len(Slice(numero_semana, pad, Len(final) + pad)) # Len(final)
             THEN [error |-> "ValueError"]
             ELSE IF DropNa(total) = <<>>
             THEN [error |-> "ValueError"]
             ELSE [error |-> "",
                   final |-> final,
                   pad |-> pad,
                   valor_min |-> valor_min,
                   valor_max |-> valor_max,
                   marcas |-> marcas,
                   etiquetas |-> Etiquetas0(marcas),
                   max_valor |-> SeriesMax(total),
                   max_fecha |-> final[IdxMax(total)].fecha,
                   mes_max |-> MesMax(df),
                   total |-> suma,
                   media |-> RatDivInt(suma, Len(final)),
                   marcas_meses |-> marcas_meses,
                   z |-> total,
                   zmin |-> valor_min,
                   zmax |-> valor_max]
        /\ UNCHANGED <<anio, csv, serie, data, previos>>

(***************************************************************************)
(* dengue_estatal.main(anio)                                               *)
(***************************************************************************)
\* ./assets/poblacion_entidad/total.csv: the population of the entidades.
POBLACION_ENTIDAD == <<100000, 200000, 400000>>

\* ./assets/mexico.json: the entidades drawn on the map.
GEO_ENTIDADES == <<1, 2>>

\* The largest identifier of an entidad inside the republic.
MAX_ENTIDAD == 32

TICKS_ESTATAL == 11

\* total / poblacion * 100000
Tasa(total, poblacion) == Rat(total * 100000, poblacion)

\* pivot_table(index="ENTIDAD_RES", aggfunc="count") with the columns total
\* and tasa: one row per entidad that has rows, in the order of the index.
PorEntidad(df) ==
    LET ents == {df[i].ENTIDAD_RES : i \in DOMAIN df}
        orden == SortSeq([k \in 1..MAX_ENTIDAD |-> k], <)
        presentes == SelectSeq(orden, LAMBDA e : e \in ents)
    IN  [k \in DOMAIN presentes |->
            LET e == presentes[k]
                total == Cardinality({i \in DOMAIN df : df[i].ENTIDAD_RES = e})
            IN  [entidad |-> e, total |-> total,
                 tasa |-> Tasa(total, POBLACION_ENTIDAD[e])]]

\* df.sort_values("tasa", ascending=False)
OrdenarPorTasa(df) == SortSeq(df, LAMBDA x, y : RatLt(y.tasa, x.tasa))

Columna_tasa(df) == [i \in DOMAIN df |-> df[i].tasa]

main_estatal ==
    /\ prog = "ninguno"
    /\ \E confirmados \in {Confirmados(csv)} :
       \E dentro \in {SelectSeq(confirmados,
                                LAMBDA r : r.ENTIDAD_RES <= MAX_ENTIDAD)} :
       \E df \in {OrdenarPorTasa(PorEntidad(dentro))} :
       \E tasa \in {Columna_tasa(df)} :
       \E valor_min \in {SeriesMin(tasa)} :
       \E valor_max \in {SeriesQuantile(tasa)} :
       \E marcas \in {Linspace(valor_min, valor_max, TICKS_ESTATAL)} :
        /\ prog' = "estatal"
        /\ res' =
             IF dentro = <<>>
             THEN [error |-> "KeyError"]
             ELSE IF \E g \in DOMAIN GEO_ENTIDADES :
                        \A i \in DOMAIN df : df[i].entidad # GEO_ENTIDADES[g]
             THEN [error |-> "KeyError"]
             ELSE [error |-> "",
                   total_nacional |-> Len(confirmados),
                   df |-> df,
                   valor_min |-> valor_min,
                   valor_max |-> valor_max,
                   marcas |-> marcas,
                   etiquetas |-> Etiquetas0(marcas),
                   z |-> [g \in DOMAIN GEO_ENTIDADES |->
                            LET i == CHOOSE j \in DOMAIN df :
                                        df[j].entidad = GEO_ENTIDADES[g]
                            IN  df[i].tasa],
                   zmin |-> valor_min,
                   zmax |-> valor_max]
        /\ UNCHANGED <<anio, csv, serie, data, previos>>

(***************************************************************************)
(* dengue_municipal.mapa_municipios(anio)                                  *)
(***************************************************************************)
\* astype(str).str.zfill(w)
RECURSIVE Zfill(_, _)
Zfill(str, w) == IF Len(str) >= w THEN str ELSE Zfill(<<"0">> \o str, w)

\* The CVE of a row: the entidad on two digits and the municipio on three.
CVE(r) == Zfill(Decimal(r.ENTIDAD_RES), 2) \o Zfill(Decimal(r.MUNICIPIO_RES), 3)

\* ./assets/poblacion2020.csv: the population of the municipios, by CVE.
\* One municipio has population 0; 03001 and 33001 are not in the file.
POBLACION_MUNICIPIO == <<
    [cve |-> <<"0", "1", "0", "0", "1">>, poblacion |-> 100000],
    [cve |-> <<"0", "1", "0", "0", "2">>, poblacion |-> 0],
    [cve |-> <<"0", "2", "0", "0", "1">>, poblacion |-> 8000],
    [cve |-> <<"0", "2", "0", "0", "2">>, poblacion |-> 40000] >>

\* ./assets/mexico2020.json: the municipios drawn on the map.
GEO_MUNICIPIOS == <<
    <<"0", "1", "0", "0", "1">>, <<"0", "1", "0", "0", "2">>,
    <<"0", "2", "0", "0", "1">>, <<"0", "2", "0", "0", "2">>,
    <<"0", "3", "0", "0", "1">> >>

TICKS_MUNICIPAL == 13

\* The float infinity a division by a zero population gives.
Inf == [n |-> 1, d |-> 0, inf |-> TRUE]

\* df["CVE"].value_counts().to_frame("total").join(pop) with the column tasa:
\* one row per CVE that has rows, in order of first appearance; the
\* population is missing (tasa NaN) for a CVE the population file lacks.
PorMunicipio(df) ==
    LET cves == [i \in DOMAIN df |-> CVE(df[i])]
        primeros == SelectSeq([i \in DOMAIN df |-> i],
                              LAMBDA i : \A j \in 1..(i - 1) : cves[j] # cves[i])
    IN  [k \in DOMAIN primeros |->
            LET c == cves[primeros[k]]
                total == Cardinality({i \in DOMAIN df : cves[i] = c})
                filas == {p \in DOMAIN POBLACION_MUNICIPIO :
                             POBLACION_MUNICIPIO[p].cve = c}
                pob == POBLACION_MUNICIPIO[CHOOSE p \in filas : TRUE].poblacion
            IN  [cve |-> c, total |-> total,
                 tasa |-> IF filas = {} THEN NaN
                          ELSE IF pob = 0 THEN Inf
                          ELSE Tasa(total, pob)]]

\* df[df["tasa"] != np.inf] and df[df["tasa"] != 0]: a NaN tasa stays.
SinInfNiCero(df) ==
    SelectSeq(df, LAMBDA r : r.tasa # Inf /\ ~RatEq(r.tasa, Int2Rat(0)))

\* The labels of the municipal map: one decimal below 10, none from 10 on;
\* the last label is built from valor_max.
EtiquetasMunicipal(marcas, valor_max) ==
    [k \in DOMAIN marcas |->
        IF k = Len(marcas) THEN <<MAYOR_IGUAL>> \o Format0(valor_max)
        ELSE IF RatLe(Int2Rat(10), marcas[k]) THEN Format0(marcas[k])
        ELSE Format1(marcas[k])]

mapa_municipios ==
    /\ prog = "ninguno"
    /\ \E confirmados \in {Confirmados(csv)} :
       \E df \in {SinInfNiCero(PorMunicipio(confirmados))} :
       \E tasa \in {Columna_tasa(df)} :
       \E valor_min \in {SeriesMin(tasa)} :
       \E valor_max \in {SeriesQuantile(tasa)} :
       \E marcas \in {Linspace(valor_min, valor_max, TICKS_MUNICIPAL)} :
        /\ prog' = "municipal"
        /\ res' = [error |-> "",
                   total_casos |-> Len(confirmados),
                   df |-> df,
                   valor_min |-> valor_min,
                   valor_max |-> valor_max,
                   marcas |-> marcas,
                   etiquetas |-> EtiquetasMunicipal(marcas, valor_max),
                   z |-> [g \in DOMAIN GEO_MUNICIPIOS |->
                            LET filas == {j \in DOMAIN df :
                                             df[j].cve = GEO_MUNICIPIOS[g]}
                            IN  IF filas = {} THEN NaN
                                ELSE Int2Rat(df[CHOOSE j \in filas : TRUE].total)],
                   zmin |-> valor_min,
                   zmax |-> valor_max]
        /\ UNCHANGED <<anio, csv, serie, data, previos>>

(***************************************************************************)
(* The system: a year and its table, and one run of one of the charts on   *)
(* them (each script is run as a process of its own).                      *)
(***************************************************************************)
SinSerie == [inicio |-> Fecha(1, 1, 1), valores |-> <<>>]

\* The three scripts, and the record of what each one gave the first time
\* it was run: none has been run yet.
Programas == {"calendario", "estatal", "municipal"}

SinPrevios == [p \in Programas |-> [hecho |-> FALSE]]

Init ==
    /\ anio \in Anios
    /\ csv \in Tablas(anio)
    /\ serie = SinSerie
    /\ prog = "ninguno"
    /\ res = [error |-> ""]
    /\ data = [y \in {anio} |-> csv]
    /\ previos = SinPrevios

Next ==
    \/ main_calendario
    \/ main_estatal
    \/ mapa_municipios

Spec == Init /\ [][Next]_vars

(***************************************************************************)
(* The calendar on a series of days: the statements of main that follow    *)
(* the loading of the table (the scale, the grid and the statistics), run  *)
(* on a frame whose index is the range of days of the series and whose     *)
(* column 'total' holds its values.                                        *)
(***************************************************************************)
\* The series the statements are run on: the values 0, 1, ..., k; the same
\* value on every day; the days 3, 7, 0 and days with the largest value
\* twice; and ranges of about a year and more.
Series ==
    LET inicios == {Fecha(2023, 1, d) : d \in 1..7}
        columnas ==
            {[i \in 1..(k + 1) |-> i - 1] : k \in 0..MaxValor}
            \cup {[i \in 1..n |-> c] : n \in {1, 4}, c \in {0, 5}}
            \cup {<<3, 7, 0>>, <<7, 3, 7>>, <<0, 2, 2, 1>>}
            \cup {[i \in 1..n |-> i % 2] : n \in 365..MaxDias}
    IN  {[inicio |-> f, valores |-> [i \in DOMAIN c |-> Int2Rat(c[i])]] :
            f \in inicios, c \in columnas}

\* The frame 'final' of a series: its days and the columns of main.
FinalSerie(s) ==
    LET n == Len(s.valores)
        indice == [i \in 1..n |-> FromOrdinal(Ordinal(s.inicio) + i - 1)]
        pad == DayOfWeek(indice[1])
        semana == Slice(numero_semana, pad, n + pad)
    IN  [i \in 1..n |->
            [fecha |-> indice[i],
             total |-> s.valores[i],
             dayofweek |-> DayOfWeek(indice[i]),
             semana |-> IF i \in DOMAIN semana THEN semana[i] ELSE -1,
             borde |-> Borde(indice[i])]]

calendario_serie ==
    /\ prog = "ninguno"
    /\ \E final \in {FinalSerie(serie)} :
       \E total \in {Columna_total(final)} :
       \E valor_min \in {SeriesMin(total)} :
       \E valor_max \in {SeriesQuantile(total)} :
       \E marcas \in {Linspace(valor_min, valor_max, TICKS_CALENDARIO)} :
       \E pad \in {DayOfWeek(final[1].fecha)} :
       \E suma \in {SeriesSum(total)} :
        /\ prog' = "serie"
        /\ res' =
             IF Len(Slice(numero_semana, pad, Len(final) + pad)) # Len(final)
             THEN [error |-> "ValueError"]
             ELSE IF DropNa(total) = <<>>
             THEN [error |-> "ValueError"]
             ELSE [error |-> "",
                   final |-> final,
                   pad |-> pad,
                   valor_min |-> valor_min,
                   valor_max |-> valor_max,
                   marcas |-> marcas,
                   etiquetas |-> Etiquetas0(marcas),
                   max_valor |-> SeriesMax(total),
                   max_fecha |-> final[IdxMax(total)].fecha,
                   total |-> suma,
                   media |-> RatDivInt(suma, Len(final)),
                   marcas_meses |-> marcas_meses,
                   z |-> total,
                   zmin |-> valor_min,
                   zmax |-> valor_max]
        /\ UNCHANGED <<anio, csv, serie, data, previos>>

InitSerie ==
    /\ serie \in Series
    /\ anio = serie.inicio.year
    /\ csv = <<>>
    /\ prog = "ninguno"
    /\ res = [error |-> ""]
    /\ data = [y \in {anio} |-> csv]
    /\ previos = SinPrevios

NextSerie == calendario_serie

SpecSerie == InitSerie /\ [][NextSerie]_vars

(***************************************************************************)
(* The scripts run again and again: the directory ./data holds one table   *)
(* per year, a run reads the table of its year, and when it ends its local *)
(* variables are gone.  'previos' remembers what the first run of each     *)
(* script was given and what it produced.                                  *)
(***************************************************************************)
AniosRepetir == {UltimoAnio - 4, UltimoAnio - 3}

\* The tables of year y in ./data: the empty one and MaxFilas rows in a row.
TablasRepetir(y) ==
    {<<>>} \cup {SubSeq(Filas(y), i, i + MaxFilas - 1) :
                    i \in 1..(Len(Filas(y)) - MaxFilas + 1)}

InitRepetir ==
    /\ data \in {d \in [AniosRepetir -> UNION {TablasRepetir(y) : y \in AniosRepetir}] :
                    \A y \in AniosRepetir : d[y] \in TablasRepetir(y)}
    /\ anio \in AniosRepetir
    /\ csv = data[anio]
    /\ serie = SinSerie
    /\ prog = "ninguno"
    /\ res = [error |-> ""]
    /\ previos = SinPrevios

\* A script is called with a year: pd.read_csv reads the table of that year.
cargar ==
    /\ prog = "ninguno"
    /\ \E y \in AniosRepetir :
        /\ anio' = y
        /\ csv' = data[y]
    /\ UNCHANGED <<serie, prog, res, data, previos>>

\* The run ends: its frames, scale and statistics were local to the call.
terminar ==
    /\ prog \in Programas
    /\ previos' = IF previos[prog].hecho THEN previos
                  ELSE [previos EXCEPT ![prog] =
                           [hecho |-> TRUE, anio |-> anio,
                            data |-> data, res |-> res]]
    /\ prog' = "ninguno"
    /\ res' = [error |-> ""]
    /\ UNCHANGED <<anio, csv, serie, data>>

NextRepetir ==
    \/ cargar
    \/ main_calendario
    \/ main_estatal
    \/ mapa_municipios
    \/ terminar

SpecRepetir == InitRepetir /\ [][NextRepetir]_vars

(***************************************************************************)
(* Properties.  The calendar facts they are stated with are computed here  *)
(* on their own, not with the operators of the charts.                     *)
(***************************************************************************)
\* The number of days of year y.
DiasDelAnio(y) == IF IsLeap(y) THEN 366 ELSE 365

\* The number of days of month m of year y.
DiasDelMes(y, m) ==
    CASE m \in {4, 6, 9, 11} -> 30
      [] m = 2 -> (IF IsLeap(y) THEN 29 ELSE 28)
      [] OTHER -> 31

\* Every date of year y.
FechasDelAnio(y) ==
    UNION {{Fecha(y, m, d) : d \in 1..DiasDelMes(y, m)} : m \in 1..12}

\* The weekday (Monday = 0) of January 1 of year y >= 2000, counted from
\* Saturday, January 1, 2000: a year moves it by one day, a leap year by two.
PrimerDiaSemana(y) ==
    (5 + (y - 2000) + Cardinality({k \in 2000..(y - 1) : IsLeap(k)})) % 7

\* The calendar was run and produced its chart.
CalOK == prog = "calendario" /\ res.error = ""

\* The table has confirmed rows whose span of dates meets the year.
HayDatos ==
    \E i, j \in DOMAIN csv :
        /\ csv[i].ESTATUS_CASO = 2 /\ csv[j].ESTATUS_CASO = 2
        /\ csv[i].FECHA_SIGN_SINTOMAS.year <= anio
        /\ csv[j].FECHA_SIGN_SINTOMAS.year >= anio

\* C1: the grid of a full year has exactly one cell per calendar day: as
\* many cells as days, and every date of the year in exactly one cell.
Thm_C1 ==
    (prog = "calendario" /\ HayDatos) =>
        /\ res.error = ""
        /\ Len(res.final) = DiasDelAnio(anio)
        /\ {res.final[i].fecha : i \in DOMAIN res.final} = FechasDelAnio(anio)
        /\ Cardinality(FechasDelAnio(anio)) = Len(res.final)

W_C1 == CalOK /\ Len(res.final) = 366 /\ res.final[60].fecha = Fecha(anio, 2, 29)

\* C2: the week index of the day at offset i is the element at position
\* pad + i of the reference list, pad being the weekday of the first date,
\* and the reference list holds (pad + i) \div 7 at every position
\* pad + i < 378.
Thm_C2 ==
    CalOK =>
        /\ Len(numero_semana) = 378
        /\ \A p \in 0..6 : \A k \in 0..(377 - p) :
              numero_semana[p + k + 1] = (p + k) \div 7
        /\ \A i \in DOMAIN res.final :
              /\ res.final[i].semana
                   = numero_semana[PrimerDiaSemana(anio) + (i - 1) + 1]
              /\ res.final[i].semana = (PrimerDiaSemana(anio) + (i - 1)) \div 7

W_C2 == CalOK /\ res.pad = 2 /\ res.final[6].semana = 1 /\ res.final[5].semana = 0

\* C3: in date order the week index never decreases, and it is exactly one
\* more seven days later.
Thm_C3 ==
    CalOK =>
        /\ \A i \in 1..(Len(res.final) - 1) :
              res.final[i].semana <= res.final[i + 1].semana
        /\ \A i \in 1..(Len(res.final) - 7) :
              res.final[i + 7].semana = res.final[i].semana + 1

W_C3 == CalOK /\ res.final[1].semana = 0 /\ res.final[8].semana = 1
              /\ res.final[365].semana = 52

\* C4 as stated: the first day is in column 0 and the first day in column 1
\* is the day at offset 7, whatever the weekday of the first day.
Orig_C4 ==
    CalOK =>
        /\ \A i \in 1..7 : res.final[i].semana = 0
        /\ res.final[8].semana = 1

\* C4 amended: the first day is in column 0 and the first day in column 1
\* is the day at offset 7 - pad (the first Monday after the first day).
Thm_C4 ==
    CalOK =>
        /\ \A i \in 1..(7 - PrimerDiaSemana(anio)) : res.final[i].semana = 0
        /\ res.final[7 - PrimerDiaSemana(anio) + 1].semana = 1
        /\ res.final[7 - PrimerDiaSemana(anio) + 1].dayofweek = 0

W_C4 == CalOK /\ res.pad = 3 /\ res.final[4].semana = 0 /\ res.final[5].semana = 1

\* C5: a year that begins on Monday has week index i \div 7 at offset i; a
\* year that begins on Sunday has its first day alone in week 0 and its
\* second day first of week 1.
Thm_C5 ==
    CalOK =>
        /\ PrimerDiaSemana(anio) = 0 =>
              \A i \in DOMAIN res.final : res.final[i].semana = (i - 1) \div 7
        /\ PrimerDiaSemana(anio) = 6 =>
              /\ res.final[1].semana = 0
              /\ \A i \in 2..8 : res.final[i].semana = 1
              /\ res.final[9].semana = 2

W_C5 == CalOK /\ res.pad = 6 /\ res.final[1].semana = 0 /\ res.final[2].semana = 1

\* C6: every week index of a full year is within 0..53, so there are at
\* most 54 columns; a leap year that begins on Sunday gets all of 0..53, its
\* last day in column 53, nothing wrapped or cut.
Thm_C6 ==
    (prog = "calendario" /\ HayDatos) =>
        /\ res.error = ""
        /\ \A i \in DOMAIN res.final : res.final[i].semana \in 0..53
        /\ Cardinality({res.final[i].semana : i \in DOMAIN res.final}) <= 54
        /\ (PrimerDiaSemana(anio) = 6 /\ IsLeap(anio)) =>
              /\ {res.final[i].semana : i \in DOMAIN res.final} = 0..53
              /\ Len(res.final) = 366
              /\ res.final[366].semana = 53
              /\ res.final[366].fecha = Fecha(anio, 12, 31)

W_C6 == CalOK /\ IsLeap(anio) /\ res.pad = 6 /\ res.final[366].semana = 53

\* C7: the weekday of a cell is the weekday of its date, Monday = 0 and
\* Sunday = 6: at offset i it is (pad + i) mod 7.
Thm_C7 ==
    CalOK =>
        \A i \in DOMAIN res.final :
            /\ res.final[i].dayofweek \in 0..6
            /\ res.final[i].dayofweek = (PrimerDiaSemana(anio) + (i - 1)) % 7

W_C7 == CalOK /\ res.final[1].dayofweek = 5 /\ res.final[2].dayofweek = 6
              /\ res.final[3].dayofweek = 0

\* C8: the month-start flag is 1 exactly on the cells whose day of month is
\* 1: twelve cells of a full year, one per month, and 0 on the others.
Thm_C8 ==
    CalOK =>
        /\ \A i \in DOMAIN res.final :
              /\ res.final[i].borde \in {0, 1}
              /\ res.final[i].borde = 1 <=> res.final[i].fecha.day = 1
        /\ Cardinality({i \in DOMAIN res.final : res.final[i].borde = 1}) = 12
        /\ \A m \in 1..12 :
              Cardinality({i \in DOMAIN res.final :
                              /\ res.final[i].borde = 1
                              /\ res.final[i].fecha.month = m}) = 1

W_C8 == CalOK /\ res.final[1].borde = 1 /\ res.final[2].borde = 0
              /\ res.final[32].borde = 1

\* One of the charts was run and produced its scale.
EscalaOK == prog \in {"calendario", "estatal", "municipal"} /\ res.error = ""

\* The values the scale of the chart is built from, those that are numbers.
Observados ==
    LET v == IF prog = "calendario" THEN [i \in DOMAIN res.final |->
                                             res.final[i].total]
             ELSE [i \in DOMAIN res.df |-> res.df[i].tasa]
    IN  SelectSeq(v, LAMBDA x : x.d # 0)

\* The order statistic of rank k (from 0) of the values v: the value with at
\* most k values below it and more than k values not above it.
Estadistico(v, k) ==
    CHOOSE x \in Range(v) :
        /\ Cardinality({i \in DOMAIN v : RatLt(v[i], x)}) <= k
        /\ Cardinality({i \in DOMAIN v : RatLe(v[i], x)}) > k

\* C9: on a non-empty distribution min_value is the least observed value
\* and max_value is the linear interpolation between the order statistics
\* at the floor and the ceiling of the rank 0.95 * (n - 1).
Thm_C9 ==
    (EscalaOK /\ Observados # <<>>) =>
        LET v == Observados
            n == Len(v)
            piso == (19 * (n - 1)) \div 20
            resto == (19 * (n - 1)) % 20
            techo == IF resto = 0 THEN piso ELSE piso + 1
            lo == Estadistico(v, piso)
            hi == Estadistico(v, techo)
        IN  /\ \E i \in DOMAIN v : v[i] = res.valor_min
            /\ \A i \in DOMAIN v : RatLe(res.valor_min, v[i])
            /\ RatEq(RatMul(RatSub(res.valor_max, lo), Int2Rat(20)),
                     RatMul(RatSub(hi, lo), Int2Rat(resto)))

W_C9 ==
    /\ EscalaOK
    /\ Observados # <<>>
    /\ RatLt(res.valor_min, res.valor_max)
    /\ \E i \in DOMAIN Observados : RatLt(res.valor_max, Observados[i])
    /\ \E i \in DOMAIN Observados : RatLt(Observados[i], res.valor_max)
    /\ \A i \in DOMAIN Observados : ~RatEq(Observados[i], res.valor_max)

\* The number of ticks of each chart.
TicksDe(p) ==
    CASE p = "calendario" -> 9 [] p = "estatal" -> 11 [] p = "municipal" -> 13

\* C10: every scale has exactly tick_count tick values (9, 11, 13), which
\* never decrease, and exactly tick_count labels.
Thm_C10 ==
    EscalaOK =>
        /\ Len(res.marcas) = TicksDe(prog)
        /\ Len(res.etiquetas) = TicksDe(prog)
        /\ \A k \in 1..(Len(res.marcas) - 1) :
              ~RatLt(res.marcas[k + 1], res.marcas[k])
        /\ Observados # <<>> =>
              \A k \in 1..(Len(res.marcas) - 1) :
                  RatLe(res.marcas[k], res.marcas[k + 1])

W_C10 ==
    /\ EscalaOK
    /\ prog = "municipal"
    /\ Len(res.marcas) = 13
    /\ Len(res.etiquetas) = 13
    /\ \A k \in 1..12 : RatLt(res.marcas[k], res.marcas[k + 1])

\* C11: the ticks are evenly spaced from min_value to max_value: the first
\* is min_value, the last is max_value, and each step is
\* (max_value - min_value) / (tick_count - 1).
Thm_C11 ==
    (EscalaOK /\ Observados # <<>>) =>
        LET n == Len(res.marcas)
        IN  /\ RatEq(res.marcas[1], res.valor_min)
            /\ RatEq(res.marcas[n], res.valor_max)
            /\ \A k \in 1..(n - 1) :
                  RatEq(RatMul(RatSub(res.marcas[k + 1], res.marcas[k]),
                               Int2Rat(TicksDe(prog) - 1)),
                        RatSub(res.valor_max, res.valor_min))

W_C11 ==
    /\ EscalaOK
    /\ prog = "estatal"
    /\ RatLt(res.valor_min, res.valor_max)
    /\ RatEq(res.marcas[1], res.valor_min)
    /\ RatEq(res.marcas[11], res.valor_max)
    /\ RatLt(res.marcas[1], res.marcas[2])

\* The calendar was run on a series and produced its chart.
SerieOK == prog = "serie" /\ res.error = ""

\* The series holds the values 0, 1, ..., 100.
Es0a100 ==
    /\ Len(serie.valores) = 101
    /\ \A i \in DOMAIN serie.valores : serie.valores[i] = Int2Rat(i - 1)

\* What C12 says of every scale: 9 ticks that increase, and the last label
\* with the 'greater or equal' sign.
NueveMarcas ==
    /\ Len(res.marcas) = 9
    /\ \A k \in 1..8 : RatLt(res.marcas[k], res.marcas[k + 1])
    /\ Len(res.etiquetas) = 9
    /\ res.etiquetas[9][1] = MAYOR_IGUAL

\* C12 as stated: on the values 0, 1, ..., 100 the scale has 9 increasing
\* ticks, the last label with the sign, and max_value is about 95.05.
Orig_C12 ==
    (prog = "serie" /\ Es0a100) =>
        /\ res.error = ""
        /\ NueveMarcas
        /\ RatLe(Rat(95045, 1000), res.valor_max)
        /\ RatLe(res.valor_max, Rat(95055, 1000))

\* C12 amended: on the values 0, 1, ..., 100 the scale has 9 increasing
\* ticks, the last label with the sign, and max_value is exactly 95, the
\* order statistic of rank 0.95 * 100 = 95 (not 100).
Thm_C12 ==
    (prog = "serie" /\ Es0a100) =>
        /\ res.error = ""
        /\ NueveMarcas
        /\ RatEq(res.valor_max, Int2Rat(95))
        /\ RatEq(res.valor_max, Estadistico(serie.valores, 95))
        /\ RatEq(res.valor_min, Int2Rat(0))

W_C12 ==
    /\ SerieOK
    /\ Es0a100
    /\ res.marcas[2] = Rat(95, 8)
    /\ res.etiquetas[9] = <<MAYOR_IGUAL, "9", "5">>

\* The series holds the same value on every one of its days.
Constante ==
    /\ serie.valores # <<>>
    /\ \A i \in DOMAIN serie.valores : serie.valores[i] = serie.valores[1]

EtiquetaDe(p, marca) ==
    IF p = "municipal" /\ RatLt(marca, Int2Rat(10)) THEN Format1(marca)
    ELSE Format0(marca)

\* C14: in every scale the label of the final tick is the formatted label
\* of that tick with the 'greater or equal' sign before it, and no other
\* label carries the sign.
Claim_C14 ==
    (EscalaOK /\ Observados # <<>>) =>
        LET n == Len(res.etiquetas)
        IN  /\ res.etiquetas[n] =
                  <<MAYOR_IGUAL>> \o EtiquetaDe(prog, res.marcas[n])
            /\ \A k \in 1..(n - 1) :
                  /\ res.etiquetas[k] = EtiquetaDe(prog, res.marcas[k])
                  /\ res.etiquetas[k][1] # MAYOR_IGUAL

\* The number of confirmed rows of the table with onset on date f.
RegistrosDel(f) ==
    Cardinality({j \in DOMAIN csv :
                    /\ csv[j].ESTATUS_CASO = 2
                    /\ csv[j].FECHA_SIGN_SINTOMAS = f})

\* The daily series of the year with every record-less day valued 0.
SerieConCeros ==
    [i \in 1..DiasDelAnio(anio) |->
        Int2Rat(RegistrosDel(FromOrdinal(Ordinal(Fecha(anio, 1, 1)) + i - 1)))]

\* C15: a day of the year with no records counts as 0 in all that is
\* derived from the daily series: the scale's min_value and 95th
\* percentile and the total, the mean and the maximum, be the day between
\* the first and the last recorded dates or outside them.
Claim_C15 ==
    CalOK =>
        \E v \in {SerieConCeros} :
            LET n == Len(v)
                piso == (19 * (n - 1)) \div 20
                resto == (19 * (n - 1)) % 20
                lo == Estadistico(v, piso)
                hi == Estadistico(v, piso + 1)
                registros == Cardinality({j \in DOMAIN csv :
                                /\ csv[j].ESTATUS_CASO = 2
                                /\ csv[j].FECHA_SIGN_SINTOMAS.year = anio})
            IN  /\ \E i \in DOMAIN v : RatEq(v[i], res.valor_min)
                /\ \A i \in DOMAIN v : RatLe(res.valor_min, v[i])
                /\ RatEq(RatMul(RatSub(res.valor_max, lo), Int2Rat(20)),
                         RatMul(RatSub(hi, lo), Int2Rat(resto)))
                /\ RatEq(res.total, Int2Rat(registros))
                /\ RatEq(RatMul(res.media, Int2Rat(n)), Int2Rat(registros))
                /\ \E i \in DOMAIN v : RatEq(v[i], res.max_valor)
                /\ \A i \in DOMAIN v : RatLe(v[i], res.max_valor)

\* C16: the statistics give the largest value of a single day and its date,
\* the earliest date when several days share it; for 3, 7, 0 on January 1,
\* 2 and 3 of 2023 they give 7 on 2023-01-02.
Thm_C16 ==
    SerieOK =>
        LET v == serie.valores
            i == Ordinal(res.max_fecha) - Ordinal(serie.inicio) + 1
        IN  /\ i \in DOMAIN v
            /\ RatEq(v[i], res.max_valor)
            /\ \A j \in DOMAIN v :
                  /\ RatLe(v[j], res.max_valor)
                  /\ j < i => RatLt(v[j], res.max_valor)
            /\ (v = <<Int2Rat(3), Int2Rat(7), Int2Rat(0)>>
                  /\ serie.inicio = Fecha(2023, 1, 1)) =>
                  /\ res.max_valor = Int2Rat(7)
                  /\ res.max_fecha = Fecha(2023, 1, 2)

W_C16 ==
    /\ SerieOK
    /\ serie.inicio = Fecha(2023, 1, 1)
    /\ serie.valores = <<Int2Rat(7), Int2Rat(3), Int2Rat(7)>>
    /\ res.max_valor = Int2Rat(7)
    /\ res.max_fecha = Fecha(2023, 1, 1)

\* C17: the total is the sum of the daily values of the range, and the
\* mean is the total divided by the number of calendar days of the range
\* (365 or 366), the days valued 0 and the days with no records counted,
\* never by the number of days that have cases.
Thm_C17 ==
    CalOK =>
        LET registros == Cardinality({j \in DOMAIN csv :
                            /\ csv[j].ESTATUS_CASO = 2
                            /\ csv[j].FECHA_SIGN_SINTOMAS.year = anio})
        IN  /\ RatEq(res.total, Int2Rat(registros))
            /\ RatEq(RatMul(res.media, Int2Rat(DiasDelAnio(anio))),
                     Int2Rat(registros))
            /\ ~IsNaN(res.total) /\ ~IsNaN(res.media)

W_C17 ==
    /\ CalOK
    /\ anio = 2024
    /\ res.total = Int2Rat(2)
    /\ res.media = Rat(1, 183)
    /\ res.final[2].total = Int2Rat(0)
    /\ IsNaN(res.final[4].total)

\* The sum of the daily values of the cells of the year in month m.
AgregadoDelMes(m) ==
    Cardinality({j \in DOMAIN csv :
                    /\ csv[j].ESTATUS_CASO = 2
                    /\ csv[j].FECHA_SIGN_SINTOMAS.year = anio
                    /\ csv[j].FECHA_SIGN_SINTOMAS.month = m})

\* C18: the month the statistics give is the one whose daily values add up
\* to the most, and the count given for it is the sum of the daily values
\* of the cells of the year in that month: rows dated outside the year do
\* not count.
Claim_C18 ==
    CalOK =>
        /\ res.mes_max.mes \in 1..12
        /\ \A m \in 1..12 : AgregadoDelMes(m) <= AgregadoDelMes(res.mes_max.mes)
        /\ res.mes_max.cuenta = AgregadoDelMes(res.mes_max.mes)

FechasRegistradas ==
    LET c == SelectSeq(csv, LAMBDA r : r.ESTATUS_CASO = 2)
    IN  [k \in DOMAIN c |-> Ordinal(c[k].FECHA_SIGN_SINTOMAS)]

\* The dates of the rows are not in increasing order or skip a day.
NoContigua ==
    \E k \in 1..(Len(FechasRegistradas) - 1) :
        FechasRegistradas[k + 1] # FechasRegistradas[k] + 1

SinConfirmados == \A j \in DOMAIN csv : csv[j].ESTATUS_CASO # 2

\* C21: when the scale or the statistics are computed over no values (a
\* year with no confirmed records) the run fails instead of producing a
\* scale, labels or statistics.  The code defines no EmptyInputError, so a
\* failure under any name is taken as the failure the claim asks for.
Claim_C21 ==
    (prog \in {"calendario", "estatal", "municipal"} /\ SinConfirmados) =>
        res.error # ""

Thm_C23 ==
    (prog = "calendario" /\ HayDatos) =>
        /\ res.error = ""
        /\ \A i \in DOMAIN res.final :
              /\ res.final[i].dayofweek \in 0..6
              /\ res.final[i].semana * 7 + res.final[i].dayofweek
                   = PrimerDiaSemana(anio) + (i - 1)
        /\ Cardinality({<<res.final[i].semana, res.final[i].dayofweek>> :
                           i \in DOMAIN res.final}) = DiasDelAnio(anio)

W_C23 ==
    /\ CalOK
    /\ Len(res.final) = 366
    /\ res.pad = 5
    /\ res.final[1].semana = 0 /\ res.final[1].dayofweek = 5
    /\ res.final[3].semana = 1 /\ res.final[3].dayofweek = 0
    /\ res.final[366].semana = 52 /\ res.final[366].dayofweek = 6

\* C24: in every chart the scale (valor_min, valor_max and the ticks) is
\* computed on the quantity that is given to the renderer as the coloured
\* values z: the column of valor_min / valor_max is the column plotted, and
\* zmin and zmax are valor_min and valor_max.
Claim_C24 ==
    (EscalaOK /\ Observados # <<>>) =>
        /\ res.zmin = res.valor_min
        /\ res.zmax = res.valor_max
        /\ CASE prog = "calendario" ->
                  \A i \in DOMAIN res.final : res.z[i] = res.final[i].total
             [] prog = "estatal" ->
                  \A g \in DOMAIN GEO_ENTIDADES :
                     \E j \in DOMAIN res.df :
                        /\ res.df[j].entidad = GEO_ENTIDADES[g]
                        /\ res.z[g] = res.df[j].tasa
             [] prog = "municipal" ->
                  \A g \in DOMAIN GEO_MUNICIPIOS :
                     \/ /\ IsNaN(res.z[g])
                        /\ \A j \in DOMAIN res.df :
                              res.df[j].cve # GEO_MUNICIPIOS[g]
                     \/ \E j \in DOMAIN res.df :
                           /\ res.df[j].cve = GEO_MUNICIPIOS[g]
                           /\ res.z[g] = res.df[j].tasa

\* The number a label shows: the sign and the commas are dropped and the
\* digits are read, those after the point as tenths, hundredths, ...
RECURSIVE EnteroDe(_)
EnteroDe(cifras) ==
    IF cifras = <<>> THEN 0
    ELSE EnteroDe(SubSeq(cifras, 1, Len(cifras) - 1)) * 10
            + (CHOOSE d \in 0..9 : DIGITOS[d + 1] = cifras[Len(cifras)])

RECURSIVE Potencia10(_)
Potencia10(k) == IF k = 0 THEN 1 ELSE 10 * Potencia10(k - 1)

NumeroDe(etiqueta) ==
    LET sinSigno == IF etiqueta[1] = MAYOR_IGUAL THEN Tail(etiqueta)
                    ELSE etiqueta
        sinComas == SelectSeq(sinSigno, LAMBDA c : c # ",")
        cifras == SelectSeq(sinComas, LAMBDA c : c # ".")
        puntos == {k \in DOMAIN sinComas : sinComas[k] = "."}
        decimales == IF puntos = {} THEN 0
                     ELSE Len(sinComas) - (CHOOSE k \in puntos : TRUE)
    IN  Rat(EnteroDe(cifras), Potencia10(decimales))

\* C25: in the scale of the municipal map the numbers that the labels show
\* never decrease in tick order, whenever min_value <= max_value; the
\* number of the final label is never below that of the label before it.
Claim_C25 ==
    (prog = "municipal" /\ res.error = "" /\ Observados # <<>>
        /\ RatLe(res.valor_min, res.valor_max)) =>
        \A k \in 1..(Len(res.etiquetas) - 1) :
            RatLe(NumeroDe(res.etiquetas[k]), NumeroDe(res.etiquetas[k + 1]))

\* The offset from January 1 of the first day of month m of year y.
InicioDelMes(y, m) ==
    IF m = 1 THEN 0
    ELSE LET antes == [k \in 1..(m - 1) |-> DiasDelMes(y, k)]
             suma[k \in 0..(m - 1)] ==
                 IF k = 0 THEN 0 ELSE suma[k - 1] + antes[k]
         IN  suma[m - 1]

\* C26: in every full year (365 or 366 days, any first weekday) each of the
\* 12 labels of the months, at the evenly spaced x positions from 1.5 to
\* 49.5, lies within the week columns of the days of its month: between
\* the week index of the first day of the month and that of its last day.
Thm_C26 ==
    (prog = "calendario" /\ HayDatos) =>
        /\ res.error = ""
        /\ Len(res.marcas_meses) = 12
        /\ res.marcas_meses[1] = Rat(3, 2)
        /\ res.marcas_meses[12] = Rat(99, 2)
        /\ \A m \in 1..12 :
              LET i1 == InicioDelMes(anio, m) + 1
                  i2 == InicioDelMes(anio, m) + DiasDelMes(anio, m)
              IN  /\ res.final[i1].fecha = Fecha(anio, m, 1)
                  /\ res.final[i2].fecha = Fecha(anio, m, DiasDelMes(anio, m))
                  /\ RatLe(Int2Rat(res.final[i1].semana), res.marcas_meses[m])
                  /\ RatLe(res.marcas_meses[m], Int2Rat(res.final[i2].semana))

W_C26 ==
    /\ CalOK
    /\ anio = 2001
    /\ res.pad = 0
    /\ res.final[274].fecha = Fecha(2001, 10, 1)
    /\ res.final[274].semana = 39
    /\ res.marcas_meses[10] = Rat(897, 22)
    /\ res.final[304].semana = 43

====
